---- MODULE Spec2Model ----
(***************************************************************************)
(* A model of muiv-newsgen's data acquisition layer:                       *)
(*   src/src/data/kudago_download.py  (timestamps, date ranges, paging)    *)
(*   src/src/data/http_client.py      (fetch_html and its fallback)        *)
(*   src/src/data/sitemap_muiv.py     (robots/sitemap crawl)               *)
(*                                                                         *)
(* Python integers are unbounded, TLC's are 32 bit, and the constants of   *)
(* normalize_unix_ts (10_000_000_000 and 4_102_444_800) do not fit.  An    *)
(* integer is therefore a sign and a magnitude, the magnitude a sequence   *)
(* of base-1000 limbs, most significant first, without leading zero limb   *)
(* (<<>> is 0): 4_102_444_800 is <<4, 102, 444, 800>>.                     *)
(***************************************************************************)
EXTENDS Integers, Sequences, FiniteSets, TLC

(***************************************************************************)
(* The state.  Each part of the program has its own variables; a           *)
(* specification runs one part and leaves the others idle.                 *)
(***************************************************************************)
VARIABLES
    tsPc,       \* "call" | "ret" | "refolded"
    tsIn,       \* the argument of normalize_unix_ts
    tsOut,      \* normalize_unix_ts(tsIn)
    tsOut2      \* normalize_unix_ts(tsIn // 1000), once computed

tsVars == <<tsPc, tsIn, tsOut, tsOut2>>

VARIABLES
    dtPc,       \* "call" | "ret"
    dtIn,       \* the argument of pick_best_date_range
    dtOut       \* its result, (start, end)

dtVars == <<dtPc, dtIn, dtOut>>

VARIABLES
    itPc,         \* "next" | "done" | "error"
    itPages,      \* the `pages` argument
    itPage,       \* the page the for loop of line 376 is at (0 before it starts)
    itResults,    \* the items of the current page not yet looked at
    itRequested,  \* the page numbers requested so far, in order
    itResponses,  \* what each of those requests gave
    itYielded     \* the items yielded so far

itVars == <<itPc, itPages, itPage, itResults, itRequested, itResponses, itYielded>>

VARIABLES
    fhPc,          \* "call" | "ret" | "raised"
    fhAllow,       \* use_cloudscraper_if_needed
    fhPrim,        \* what requests.get does
    fhImportable,  \* whether cloudscraper can be imported
    fhFb,          \* what the fallback transport does, once it is asked
    fhRes          \* the FetchResult returned

fhVars == <<fhPc, fhAllow, fhPrim, fhImportable, fhFb, fhRes>>

VARIABLES
    cwPc,       \* "start" | "root" | "rootloc" | "rootadded" | "child" |
                \* "childloc" | "childadded" | "returned" | "raised"
    cwMax,      \* max_urls
    cwCands,    \* the sitemap candidates not yet fetched
    cwLocs,     \* the locs of the root document not yet visited
    cwCLocs,    \* the locs of the child document not yet visited
    cwUrls,     \* the accumulator `urls`
    cwResult,   \* the list returned
    cwFetched,  \* the number of fetch_html calls made
    cwLast,     \* the last fetch
    cwGood,     \* the locs of every urlset walked so far
    cwSkippedAt,   \* the loop of the last response left out as unusable ("none": no such)
    cwNCands,      \* the number of candidates discover_sitemaps returned
    cwIndexLocs    \* the number of locs of the root sitemap indexes walked so far

cwVars == <<cwPc, cwMax, cwCands, cwLocs, cwCLocs, cwUrls, cwResult, cwFetched, cwLast,
            cwGood, cwSkippedAt, cwNCands, cwIndexLocs>>

VARIABLES
    pePc,       \* "call" | "ret"
    peRaw,      \* the raw event given to parse_event
    peClock,    \* whether datetime.fromtimestamp works on this platform
    peOut       \* what parse_event returned

peVars == <<pePc, peRaw, peClock, peOut>>

VARIABLES
    bdPc,         \* "next" | "saved" | "error"
    bdPages,      \* the `pages` argument
    bdMakePairs,  \* the `make_pairs` argument
    bdPage,       \* the page iter_events is at (0 before it starts)
    bdItems,      \* the items of the current page not yet looked at
    bdRawEvents,  \* the list `raw_events`
    bdPairs       \* the list `pairs`

bdVars == <<bdPc, bdPages, bdMakePairs, bdPage, bdItems, bdRawEvents, bdPairs>>

vars == <<tsVars, dtVars, itVars, fhVars, cwVars, peVars, bdVars>>

(***************************************************************************)
(* Bounds of the model.                                                    *)
(***************************************************************************)
\* Longest magnitude, in limbs, of a timestamp input (5 limbs: below 10^15).
MaxLimbs == 5
\* Longest `dates` list given to pick_best_date_range.
MaxDates == 3

(***************************************************************************)
(* Unbounded integers.                                                     *)
(***************************************************************************)
\* The divisor of the millisecond fold, and the base of the limbs.
FoldDivisor == 1000

\* The limb values the inputs are built from: enough to write both constants
\* of normalize_unix_ts, their successors and their neighbours.
LimbVals == {0, 1, 4, 10, 102, 444, 800, 801}

RECURSIVE SeqsUpTo(_, _)
\* All sequences over S of length at most n.
SeqsUpTo(S, n) ==
    IF n = 0 THEN {<<>>}
    ELSE LET shorter == SeqsUpTo(S, n - 1)
         IN  shorter \cup {Append(q, x) : q \in {r \in shorter : Len(r) = n - 1}, x \in S}

\* Magnitudes of at most n limbs, in canonical form (no leading zero limb).
Mags(n) ==
    {m \in SeqsUpTo({d \in LimbVals : d < FoldDivisor}, n) : m = <<>> \/ m[1] # 0}

RECURSIVE MagLessFrom(_, _, _)
\* a < b for two magnitudes of the same length, compared limb by limb from i.
MagLessFrom(a, b, i) ==
    IF i > Len(a) THEN FALSE
    ELSE IF a[i] # b[i] THEN a[i] < b[i]
    ELSE MagLessFrom(a, b, i + 1)

\* a < b for canonical magnitudes.
MagLess(a, b) ==
    IF Len(a) # Len(b) THEN Len(a) < Len(b) ELSE MagLessFrom(a, b, 1)

\* Python values that reach safe_int, each a record of the same shape:
\*   k = "none"   None
\*   k = "int"    an int: sign neg, magnitude mag
\*   k = "float"  a finite float: integer part mag (towards zero), sign neg,
\*                frac = it has a fractional part
\*   k = "nan"    float nan or +-inf (int() raises)
\*   k = "str"    a string int() parses, as the integer it denotes
\*   k = "badstr" a string int() rejects
\*   k = "other"  a list, a dict, ... (int() raises TypeError)
PyVal(k, neg, mag, frac) == [k |-> k, neg |-> neg, mag |-> mag, frac |-> frac]
NoneV == PyVal("none", FALSE, <<>>, FALSE)
\* The int of sign neg and magnitude mag; -0 is 0.
IntV(neg, mag) == PyVal("int", neg /\ mag # <<>>, mag, FALSE)
NatV(mag) == IntV(FALSE, mag)

IsNone(x) == x.k = "none"
IsInt(x) == x.k = "int"

\* x < y for two ints.
IntLess(x, y) ==
    IF x.neg /\ ~y.neg THEN TRUE
    ELSE IF ~x.neg /\ y.neg THEN FALSE
    ELSE IF x.neg THEN MagLess(y.mag, x.mag)
    ELSE MagLess(x.mag, y.mag)

IntLeq(x, y) == ~IntLess(y, x)

\* x // 1000 for an int x >= 0: the last limb is dropped.
FloorDiv1000(x) ==
    IF Len(x.mag) <= 1 THEN NatV(<<>>) ELSE NatV(SubSeq(x.mag, 1, Len(x.mag) - 1))

\* The two constants of normalize_unix_ts.
MS_THRESHOLD == NatV(<<10, 0, 0, 0>>)        \* 10_000_000_000
MAX_TS == NatV(<<4, 102, 444, 800>>)         \* 4_102_444_800
Zero == NatV(<<>>)

(***************************************************************************)
(* safe_int and normalize_unix_ts.                                         *)
(***************************************************************************)
\* int(x), or None where x is None or int(x) raises.
safe_int(x) ==
    CASE x.k = "none"  -> NoneV
      [] x.k = "int"   -> IntV(x.neg, x.mag)
      [] x.k = "float" -> IntV(x.neg, x.mag)      \* truncation towards zero
      [] x.k = "str"   -> IntV(x.neg, x.mag)
      [] OTHER         -> NoneV                   \* nan, badstr, other

\* Mutant: the range filter keeps the seconds reading of an unfolded value
\* above the millisecond threshold check, i.e. the fold is lost.
normalize_unix_ts_nofold(ts) ==
    LET v == safe_int(ts)
    IN  IF IsNone(v) THEN NoneV
        ELSE IF IntLess(v, Zero) \/ IntLess(MAX_TS, v) THEN NoneV
        ELSE v

\* Mutant: the upper range check is dropped.
normalize_unix_ts_nomax(ts) ==
    LET v == safe_int(ts)
    IN  IF IsNone(v) THEN NoneV
        ELSE LET w == IF IntLess(MS_THRESHOLD, v) THEN FloorDiv1000(v) ELSE v
             IN  IF IntLess(w, Zero) THEN NoneV ELSE w

normalize_unix_ts(ts) ==
    LET v == safe_int(ts)
    IN  IF IsNone(v) THEN NoneV
        ELSE LET w == IF IntLess(MS_THRESHOLD, v) THEN FloorDiv1000(v) ELSE v
             IN  IF IntLess(w, Zero) \/ IntLess(MAX_TS, w) THEN NoneV ELSE w

\* The inputs of normalize_unix_ts: every int of at most MaxLimbs limbs, and
\* the other kinds of value over the shorter magnitudes.
TsInputs ==
    {IntV(n, m) : n \in BOOLEAN, m \in Mags(MaxLimbs)}
      \cup {PyVal("float", n, m, f) : n \in BOOLEAN, m \in Mags(1), f \in BOOLEAN}
      \cup {PyVal("str", n /\ m # <<>>, m, FALSE) : n \in BOOLEAN, m \in Mags(1)}
      \cup {NoneV, PyVal("nan", FALSE, <<>>, FALSE), PyVal("badstr", FALSE, <<>>, FALSE),
            PyVal("other", FALSE, <<>>, FALSE)}

TsInit == tsPc = "call" /\ tsIn \in TsInputs /\ tsOut = NoneV /\ tsOut2 = NoneV
\* The part is not running.
TsIdle ==
    /\ tsPc = "idle"
    /\ tsIn = "idle"
    /\ tsOut = "idle"
    /\ tsOut2 = "idle"

\* One call of normalize_unix_ts.
TsNormalize ==
    /\ tsPc = "call"
    /\ tsOut' = normalize_unix_ts(tsIn)
    /\ tsPc' = "ret"
    /\ UNCHANGED <<tsIn, tsOut2>>
    /\ UNCHANGED <<dtVars, itVars, fhVars, cwVars, peVars, bdVars>>

\* A second call, on the folded value tsIn // 1000 of an int above the
\* millisecond threshold.
TsRefold ==
    /\ tsPc = "ret"
    /\ IsInt(tsIn)
    /\ IntLess(MS_THRESHOLD, tsIn)
    /\ tsOut2' = normalize_unix_ts(FloorDiv1000(tsIn))
    /\ tsPc' = "refolded"
    /\ UNCHANGED <<tsIn, tsOut>>
    /\ UNCHANGED <<dtVars, itVars, fhVars, cwVars, peVars, bdVars>>

TsNext == TsNormalize \/ TsRefold

(***************************************************************************)
(* pick_best_date_range.                                                   *)
(***************************************************************************)
\* `dates` as the API gives it: isList = it is a list; an item of the list is
\* a dict (isDict) with its "start" and "end" values (None where the key is
\* missing), or something else.
DateItem(isDict, s, e) == [isDict |-> isDict, start |-> s, end |-> e]
DatesVal(isList, items) == [isList |-> isList, items |-> items]

\* One normalised range, (s, e) of norm_ranges.
Range(s, e) == [s |-> s, e |-> e]

RECURSIVE NormRanges(_)
\* The loop of lines 118-125: the dicts with a usable start, in list order.
NormRanges(items) ==
    IF items = <<>> THEN <<>>
    ELSE LET d == Head(items)
             rest == NormRanges(Tail(items))
         IN  IF ~d.isDict THEN rest
             ELSE LET s == normalize_unix_ts(d.start)
                      e == normalize_unix_ts(d.end)
                  IN  IF IsNone(s) THEN rest ELSE <<Range(s, e)>> \o rest

RECURSIVE InsertByStart(_, _)
\* r put into the sorted sequence q after every range whose start is <= r's.
InsertByStart(r, q) ==
    IF q = <<>> THEN <<r>>
    ELSE IF IntLess(r.s, Head(q).s) THEN <<r>> \o q
    ELSE <<Head(q)>> \o InsertByStart(r, Tail(q))

RECURSIVE SortByStartFrom(_, _)
SortByStartFrom(q, acc) ==
    IF q = <<>> THEN acc ELSE SortByStartFrom(Tail(q), InsertByStart(Head(q), acc))

\* list.sort(key=lambda x: x[0]): a stable sort by start.
SortByStart(q) == SortByStartFrom(q, <<>>)

RECURSIVE FirstPairedEnd(_, _)
\* The loop of lines 136-139: the first end that shares the chosen start and
\* is >= it, or None.
FirstPairedEnd(q, start) ==
    IF q = <<>> THEN NoneV
    ELSE LET r == Head(q)
         IN  IF r.s = start /\ ~IsNone(r.e) /\ IntLeq(start, r.e) THEN r.e
             ELSE FirstPairedEnd(Tail(q), start)

\* min() of a non-empty set of ints.
IntMin(S) == CHOOSE m \in S : \A x \in S : IntLeq(m, x)

\* Mutant: the fallback looks only at the ranges sharing the chosen start.
FallbackEndSameStart(q, start) ==
    LET candidates == {q[i].e : i \in {j \in 1..Len(q) :
                           q[j].s = start /\ ~IsNone(q[j].e) /\ IntLeq(start, q[j].e)}}
    IN  IF candidates = {} THEN NoneV ELSE IntMin(candidates)

\* Lines 142-143: the least end >= start over all the ranges, or None.
FallbackEnd(q, start) ==
    LET candidates == {q[i].e : i \in {j \in 1..Len(q) :
                           ~IsNone(q[j].e) /\ IntLeq(start, q[j].e)}}
    IN  IF candidates = {} THEN NoneV ELSE IntMin(candidates)

pick_best_date_range(dates) ==
    IF ~dates.isList \/ dates.items = <<>> THEN Range(NoneV, NoneV)
    ELSE LET norm_ranges == NormRanges(dates.items)
         IN  IF norm_ranges = <<>> THEN Range(NoneV, NoneV)
             ELSE LET sorted == SortByStart(norm_ranges)
                      start == sorted[1].s
                      paired == FirstPairedEnd(sorted, start)
                  IN  IF ~IsNone(paired) THEN Range(start, paired)
                      ELSE Range(start, FallbackEnd(sorted, start))

\* The start and end values the date lists are built from: 40, 50, 100, 200,
\* a missing value, a negative one, and a millisecond value (10^12, which
\* folds to 10^9).
Num(n) == NatV(<<n>>)
MsVal == NatV(<<1, 0, 0, 0, 0>>)
StartVals == {NoneV, Num(50), Num(100), IntV(TRUE, <<50>>)}
EndVals == {NoneV, Num(40), Num(100), Num(200), MsVal}
DateItems ==
    {DateItem(TRUE, s, e) : s \in StartVals, e \in EndVals}
      \cup {DateItem(FALSE, NoneV, NoneV)}
DatesInputs ==
    {DatesVal(TRUE, q) : q \in SeqsUpTo(DateItems, MaxDates)}
      \cup {DatesVal(FALSE, <<>>)}

\* The list of the spec's example: [{start: 100, end: 200}, {start: 50, end: 40}].
ExampleDates ==
    DatesVal(TRUE, <<DateItem(TRUE, Num(100), Num(200)), DateItem(TRUE, Num(50), Num(40))>>)

DtInit == dtPc = "call" /\ dtIn \in DatesInputs /\ dtOut = Range(NoneV, NoneV)
\* The part is not running.
DtIdle ==
    /\ dtPc = "idle"
    /\ dtIn = "idle"
    /\ dtOut = "idle"

\* One call of pick_best_date_range.
DtPick ==
    /\ dtPc = "call"
    /\ dtOut' = pick_best_date_range(dtIn)
    /\ dtPc' = "ret"
    /\ UNCHANGED dtIn
    /\ UNCHANGED <<tsVars, itVars, fhVars, cwVars, peVars, bdVars>>

DtNext == DtPick

(***************************************************************************)
(* iter_events: the paging of the events API, as build_dataset's loop      *)
(* drives it (a generator: a page is requested only when the loop asks for *)
(* the item after the last one of the page before).                        *)
(***************************************************************************)
\* The largest `pages` argument; main clamps it to at least 1 (line 501).
MaxPages == 3
\* The most items the API puts in one page of the model.
MaxPageItems == 2

\* An element of `results`: a dict carrying an event id, or anything else.
RawItems == {[isDict |-> TRUE, id |-> 1], [isDict |-> TRUE, id |-> 2],
             [isDict |-> FALSE, id |-> 0]}

\* data.get("results"): a list of items, None (the key is missing), or a
\* value of another type.
ResultsVal(kind, items) == [kind |-> kind, items |-> items]
ResultsVals ==
    {ResultsVal("list", q) : q \in SeqsUpTo(RawItems, MaxPageItems)}
      \cup {ResultsVal("missing", <<>>), ResultsVal("nonlist", <<>>)}

\* What get_json does for one page: it returns the parsed body, or raises
\* RuntimeError (the body is not JSON, or the status is not 200).
ApiOutcome(raises, results) == [raises |-> raises, results |-> results]
ApiOutcomes ==
    {ApiOutcome(FALSE, r) : r \in ResultsVals}
      \cup {ApiOutcome(TRUE, ResultsVal("missing", <<>>))}

\* Mutant: only a missing or mistyped `results` ends the paging.
IsEndOfDataNoEmpty(results) == results.kind # "list"

\* Line 387: not isinstance(results, list) or not results.
IsEndOfData(results) == results.kind # "list" \/ results.items = <<>>

ItInit ==
    /\ itPc = "next"
    /\ itPages \in 1..MaxPages
    /\ itPage = 0
    /\ itResults = <<>>
    /\ itRequested = <<>>
    /\ itResponses = <<>>
    /\ itYielded = <<>>

\* The part is not running.
ItIdle ==
    /\ itPc = "idle"
    /\ itPages = "idle"
    /\ itPage = "idle"
    /\ itResults = "idle"
    /\ itRequested = "idle"
    /\ itResponses = "idle"
    /\ itYielded = "idle"

\* Lines 376-388: the loop moves to the next page and requests it.
ItRequestPage ==
    /\ itPc = "next"
    /\ itResults = <<>>
    /\ itPage < itPages
    /\ \E out \in ApiOutcomes :
          /\ itPage' = itPage + 1
          /\ itRequested' = Append(itRequested, itPage + 1)
          /\ itResponses' = Append(itResponses,
                                   IF out.raises THEN "raise" ELSE
                                   IF out.results.kind # "list" THEN out.results.kind
                                   ELSE IF out.results.items = <<>> THEN "empty" ELSE "items")
          /\ IF out.raises
             THEN itPc' = "error" /\ itResults' = <<>>
             ELSE IF IsEndOfData(out.results)
                  THEN itPc' = "done" /\ itResults' = <<>>
                  ELSE itPc' = "next" /\ itResults' = out.results.items
    /\ UNCHANGED <<itPages, itYielded>>
    /\ UNCHANGED <<tsVars, dtVars, fhVars, cwVars, peVars, bdVars>>

\* Lines 389-391: the next item of the page; a dict is yielded to the caller.
ItYieldItem ==
    /\ itPc = "next"
    /\ itResults # <<>>
    /\ itResults' = Tail(itResults)
    /\ itYielded' = IF Head(itResults).isDict
                    THEN Append(itYielded, Head(itResults)) ELSE itYielded
    /\ UNCHANGED <<itPc, itPages, itPage, itRequested, itResponses>>
    /\ UNCHANGED <<tsVars, dtVars, fhVars, cwVars, peVars, bdVars>>

\* Line 376: range(1, pages + 1) is exhausted.
ItExhausted ==
    /\ itPc = "next"
    /\ itResults = <<>>
    /\ itPage >= itPages
    /\ itPc' = "done"
    /\ UNCHANGED <<itPages, itPage, itResults, itRequested, itResponses, itYielded>>
    /\ UNCHANGED <<tsVars, dtVars, fhVars, cwVars, peVars, bdVars>>

ItNext == ItRequestPage \/ ItYieldItem \/ ItExhausted

(***************************************************************************)
(* URLs and response bodies.                                               *)
(*                                                                         *)
(* A URL is a string, here a sequence of symbols, each a number so that    *)
(* sorted() is the lexicographic order of the sequences.  PN stands for    *)
(* the text "https://www.muiv.ru/about/news", SL for "/", CA and CB for    *)
(* letters of an article's slug, SM for the text of a site's sitemap       *)
(* address up to its last letter.                                          *)
(***************************************************************************)
SL == 1
CA == 2
CB == 3
SM == 4
PN == 5

\* NEWS_PREFIX = BASE + "/about/news/".
NEWS_PREFIX == <<PN, SL>>
ROBOTS_URL == <<SM, SL>>
\* BASE + "/sitemap.xml", the conventional address.
DEFAULT_SITEMAP == <<SM>>
\* Two sitemap addresses a robots.txt or a sitemap index may name.
SitemapUrls == {<<SM, CA>>, <<SM, CB>>}

\* str.startswith.
StartsWith(u, prefix) ==
    Len(u) >= Len(prefix) /\ SubSeq(u, 1, Len(prefix)) = prefix

RECURSIVE RStrip(_, _)
\* str.rstrip(c) for one character c.
RStrip(u, c) ==
    IF u # <<>> /\ u[Len(u)] = c THEN RStrip(SubSeq(u, 1, Len(u) - 1), c) ELSE u

RECURSIVE StrLess(_, _)
\* u < v as Python compares strings.
StrLess(u, v) ==
    IF v = <<>> THEN FALSE
    ELSE IF u = <<>> THEN TRUE
    ELSE IF Head(u) # Head(v) THEN Head(u) < Head(v)
    ELSE StrLess(Tail(u), Tail(v))

\* The markers _looks_like_antibot searches the lowercased body for.
Markers == {"noindex", "noarchive", "gorizontal-vertikal", "data:image/gif;base64",
            "enable javascript", "please enable javascript"}
\* The sets of markers a body can contain: "please enable javascript"
\* contains "enable javascript".
MarkSets ==
    {m \in SUBSET Markers : "please enable javascript" \in m => "enable javascript" \in m}

\* A response body (r.text or ""):
\*   nonEmpty   the text is not ""
\*   marks      the markers found in its lowercased form
\*   lead       what it starts with after lstrip(): "<?xml", "<urlset",
\*              "<sitemapindex", or "other"
\*   wellFormed etree.fromstring parses it
\*   tag        the root's local name, lowercased: "urlset", "sitemapindex", "other"
\*   locs       the stripped texts of its <loc> elements, in document order
\*   lines      read as a robots.txt: its lines
Text(nonEmpty, marks, lead, wellFormed, tag, locs, lines) ==
    [nonEmpty |-> nonEmpty, marks |-> marks, lead |-> lead, wellFormed |-> wellFormed,
     tag |-> tag, locs |-> locs, lines |-> lines]
\* A body that is no XML: "" or a page with the markers m.
EmptyText == Text(FALSE, {}, "other", FALSE, "other", <<>>, <<>>)
PageText(m) == Text(TRUE, m, "other", FALSE, "other", <<>>, <<>>)

\* One HTTP response: status, the URL after redirects (redirected or not), body.
Response(status, redirected, text) ==
    [status |-> status, redirected |-> redirected, text |-> text]

(***************************************************************************)
(* http_client.py: _looks_like_antibot and fetch_html.                     *)
(***************************************************************************)
\* The number of signals a body must match to count as an anti-bot page.
MIN_SIGNALS == 2

BoolToInt(b) == IF b THEN 1 ELSE 0

\* Mutant: one matching signal is enough.
looks_like_antibot_any(text) ==
    text.nonEmpty /\ text.marks \cap {"noindex", "gorizontal-vertikal",
                                      "data:image/gif;base64", "enable javascript"} # {}

\* Lines 41-62: _looks_like_antibot(html), on the markers of the body.
looks_like_antibot(text) ==
    IF ~text.nonEmpty THEN FALSE
    ELSE LET h == text.marks
             signals ==
                 BoolToInt("noindex" \in h /\ "noarchive" \in h)
               + BoolToInt("gorizontal-vertikal" \in h)
               + BoolToInt("data:image/gif;base64" \in h)
               + BoolToInt("enable javascript" \in h \/ "please enable javascript" \in h)
         IN  signals >= MIN_SIGNALS

\* What a transport's get() does: it returns a response or raises (no
\* connection, timeout, invalid URL).
Outcome(raises, resp) == [raises |-> raises, resp |-> resp]

\* A FetchResult; url is the caller's and not kept here.
FetchResult(resp, used, antibot) ==
    [final_redirected |-> resp.redirected, status_code |-> resp.status, text |-> resp.text,
     used_cloudscraper |-> used, looks_like_antibot |-> antibot]

\* What fetch_html gives its caller: a FetchResult, or an exception.
Returned(res) == [raised |-> FALSE, res |-> res]
Raised == [raised |-> TRUE, res |-> FetchResult(Response(0, FALSE, EmptyText), FALSE, FALSE)]

\* Mutant: the fallback's response is returned without the fallback flag.
FallbackResultUnflagged(fb) ==
    Returned(FetchResult(fb.resp, FALSE, looks_like_antibot(fb.resp.text)))

\* Lines 113-126: the result built from the fallback's response.
FallbackResult(fb) ==
    Returned(FetchResult(fb.resp, TRUE, looks_like_antibot(fb.resp.text)))

\* fetch_html(url, use_cloudscraper_if_needed = allow), where prim is what
\* requests.get does, importable whether `import cloudscraper` succeeds, and
\* fb what the scraper's get does (create_scraper raising counts as fb
\* raising).
fetch_html(allow, prim, importable, fb) ==
    IF prim.raises THEN Raised
    ELSE LET antibot == looks_like_antibot(prim.resp.text)
             primary == Returned(FetchResult(prim.resp, FALSE, antibot))
         IN  IF ~antibot \/ ~allow THEN primary
             ELSE IF ~importable THEN primary
             ELSE IF fb.raises THEN Raised
             ELSE FallbackResult(fb)

\* The responses of the fetch_html runs: a 200 or a 403, redirected or not,
\* with a body of any set of markers or the empty body.
FhStatuses == {200, 403}
FhResponses ==
    {Response(st, rd, t) : st \in FhStatuses, rd \in BOOLEAN,
                           t \in {PageText(m) : m \in MarkSets} \cup {EmptyText}}
FhOutcomes ==
    {Outcome(FALSE, r) : r \in FhResponses}
      \cup {Outcome(TRUE, Response(0, FALSE, EmptyText))}

FhNoOutcome == Outcome(TRUE, Response(0, FALSE, EmptyText))

FhInit ==
    /\ fhPc = "call"
    /\ fhAllow \in BOOLEAN
    /\ fhPrim \in FhOutcomes
    /\ fhImportable \in BOOLEAN
    /\ fhFb = FhNoOutcome
    /\ fhRes = Raised.res

\* The part is not running.
FhIdle ==
    /\ fhPc = "idle"
    /\ fhAllow = "idle"
    /\ fhPrim = "idle"
    /\ fhImportable = "idle"
    /\ fhFb = "idle"
    /\ fhRes = "idle"

\* Whether fetch_html gets as far as asking the fallback transport.
AsksFallback(allow, prim, importable) ==
    ~prim.raises /\ looks_like_antibot(prim.resp.text) /\ allow /\ importable

\* One call of fetch_html; the fallback transport answers only when asked.
FhCall ==
    /\ fhPc = "call"
    /\ \E fb \in IF AsksFallback(fhAllow, fhPrim, fhImportable) THEN FhOutcomes
                 ELSE {FhNoOutcome} :
          LET out == fetch_html(fhAllow, fhPrim, fhImportable, fb)
          IN  /\ fhFb' = fb
              /\ fhRes' = out.res
              /\ fhPc' = IF out.raised THEN "raised" ELSE "ret"
    /\ UNCHANGED <<fhAllow, fhPrim, fhImportable>>
    /\ UNCHANGED <<tsVars, dtVars, itVars, cwVars, peVars, bdVars>>

FhNext == FhCall

(***************************************************************************)
(* sitemap_muiv.py: discover_sitemaps and collect_news_urls_from_sitemap.  *)
(***************************************************************************)
\* The largest max_urls tried; the smallest is -1 (max_urls is an unchecked int).
MaxCap == 3
\* The most <loc> elements of a urlset, and of a sitemap index.
MaxLocs == 3
MaxChildren == 2
\* The most lines of a robots.txt.
MaxRobotLines == 2

CapValues == -1..MaxCap

\* The addresses a urlset lists: three articles ("…/news/b", "…/news/a",
\* "…/news/a/"), the news index itself, and a page outside the news.
LocUrls == {<<PN, SL, CB>>, <<PN, SL, CA>>, <<PN, SL, CA, SL>>, NEWS_PREFIX, <<SM, CA>>}

\* _is_xml_like: the text, lstripped, starts with one of three openings.
is_xml_like(text) == text.lead \in {"<?xml", "<urlset", "<sitemapindex"}

\* _parse_sitemap_xml: etree.fromstring raises, or (tag, locs).
parse_sitemap_xml(text) ==
    [raises |-> ~text.wellFormed, tag |-> text.tag, locs |-> text.locs]

is_news_url(url) ==
    IF ~StartsWith(url, NEWS_PREFIX) THEN FALSE
    ELSE IF RStrip(url, SL) = RStrip(NEWS_PREFIX, SL) THEN FALSE
    ELSE TRUE

\* A line of robots.txt, "<key>: <value>" (value <<>>: nothing after the colon).
RobotLine(key, value) == [key |-> key, value |-> value]
RobotKeys == {"Sitemap", "SITEMAP", "Disallow"}
\* str.lower on the keys.
Lower(key) ==
    CASE key = "Sitemap" -> "sitemap"
      [] key = "SITEMAP" -> "sitemap"
      [] key = "Disallow" -> "disallow"
      [] OTHER -> key

RECURSIVE extract_sitemaps_from_robots(_)
extract_sitemaps_from_robots(lines) ==
    IF lines = <<>> THEN <<>>
    ELSE LET line == Head(lines)
             rest == extract_sitemaps_from_robots(Tail(lines))
         IN  IF Lower(line.key) = "sitemap" /\ line.value # <<>>
             THEN <<line.value>> \o rest ELSE rest

RECURSIVE Dedup(_, _)
\* Lines 72-76: the first occurrence of each element, in order.
Dedup(q, seen) ==
    IF q = <<>> THEN seen
    ELSE Dedup(Tail(q),
               IF \E i \in 1..Len(seen) : seen[i] = Head(q) THEN seen
               ELSE Append(seen, Head(q)))

\* discover_sitemaps, given the body of robots.txt.
discover_sitemaps(text) ==
    LET found == extract_sitemaps_from_robots(text.lines)
    IN  Dedup(IF found = <<>> THEN <<DEFAULT_SITEMAP>> ELSE found, <<>>)

\* The least string of a non-empty set.
StrMin(S) == CHOOSE u \in S : \A v \in S : ~StrLess(v, u)

RECURSIVE Sorted(_)
\* sorted(urls) of a set of strings.
Sorted(S) ==
    IF S = {} THEN <<>> ELSE <<StrMin(S)>> \o Sorted(S \ {StrMin(S)})

RECURSIVE Reverse(_)
Reverse(q) == IF q = <<>> THEN <<>> ELSE Append(Reverse(Tail(q)), Head(q))

\* q[:m] as Python slices: a negative m counts from the end.
PySlice(q, m) ==
    IF m >= 0 THEN SubSeq(q, 1, IF m < Len(q) THEN m ELSE Len(q))
    ELSE SubSeq(q, 1, IF Len(q) + m > 0 THEN Len(q) + m ELSE 0)

\* Mutant: the set is returned in some other order than sorted.
ResultUnsorted(urls, max_urls) == PySlice(Reverse(Sorted(urls)), max_urls)

\* Lines 106, 126, 128: sorted(urls)[:max_urls].
Result(urls, max_urls) == PySlice(Sorted(urls), max_urls)

\* Mutant: the cap is tested with >.
CapReachedStrict(urls, max_urls) == Cardinality(urls) > max_urls

\* Lines 105, 125: len(urls) >= max_urls.
CapReached(urls, max_urls) == Cardinality(urls) >= max_urls

\* The status the crawl accepts, and the status of a failed request in its runs.
OK_STATUS == 200
NOT_FOUND == 404

\* Lines 93, 113: the response is skipped without being parsed.
Skips(res) == res.status_code # OK_STATUS \/ ~res.text.nonEmpty \/ ~is_xml_like(res.text)

\* Mutant: the parser's exception is not caught.
OnParseErrorRaise == "raise"

\* Lines 98-99, 118-119: except Exception: continue.
OnParseError == "skip"

\* What the crawl does with a fetched document: "skip" it, "raise", or walk
\* it as a "urlset" or a "sitemapindex".
Classify(res) ==
    IF Skips(res) THEN "skip"
    ELSE LET p == parse_sitemap_xml(res.text)
         IN  IF p.raises THEN OnParseError
             ELSE IF p.tag \in {"urlset", "sitemapindex"} THEN p.tag
             ELSE "skip"

\* The bodies of robots.txt: up to MaxRobotLines lines, nothing, or an
\* anti-bot page.
AntibotPage == PageText({"noindex", "noarchive", "gorizontal-vertikal"})
RobotsTexts ==
    {Text(TRUE, {}, "other", FALSE, "other", <<>>, ls) :
        ls \in SeqsUpTo({RobotLine(k, v) : k \in RobotKeys, v \in SitemapUrls \cup {<<>>}},
                        MaxRobotLines) \ {<<>>}}
      \cup {EmptyText, AntibotPage}

\* The bodies a sitemap address answers with:
\*   pages that are no XML ("", a plain page, an anti-bot page), a sitemap
\*   behind a leading comment (well formed, and not XML-like), XML-like text
\*   that does not parse, and well-formed documents: a urlset of up to
\*   MaxLocs locs, a sitemap index of up to MaxChildren, another root.
XmlLeads == {"<?xml", "<urlset", "<sitemapindex"}
DocLocs(tag) ==
    CASE tag = "urlset" -> SeqsUpTo(LocUrls, MaxLocs)
      [] tag = "sitemapindex" -> SeqsUpTo(SitemapUrls, MaxChildren)
      [] OTHER -> {<<>>}
LeadsOf(tag) ==
    CASE tag = "urlset" -> {"<urlset"}
      [] tag = "sitemapindex" -> {"<sitemapindex"}
      [] OTHER -> {"<?xml"}
SitemapTexts ==
    {EmptyText, PageText({}), AntibotPage,
     Text(TRUE, {}, "other", TRUE, "urlset", <<<<PN, SL, CA>>>>, <<>>)}
      \cup {Text(TRUE, {}, ld, FALSE, "other", <<>>, <<>>) : ld \in XmlLeads}
      \cup UNION {{Text(TRUE, {}, ld, TRUE, tag, locs, <<>>) :
                      ld \in LeadsOf(tag), locs \in DocLocs(tag)} :
                  tag \in {"urlset", "sitemapindex", "other"}}

\* A urlset served with an error status, and what an error usually carries.
ErrorTexts ==
    {EmptyText, PageText({}), AntibotPage,
     Text(TRUE, {}, "<urlset", TRUE, "urlset", <<<<PN, SL, CA>>>>, <<>>)}

\* The part of fetch_html's outcome the crawl reads: whether it raised, and
\* the status and the body of the FetchResult.
CrawlView(o) ==
    [raised |-> o.raised, status_code |-> o.res.status_code, text |-> o.res.text]

\* Every outcome of fetch_html(url, use_cloudscraper_if_needed=True) over
\* the bodies T, each served with a 200, and those of E with a 404: the
\* primary transport raises or answers; where the answer is an anti-bot page
\* the fallback is missing, raises or answers.
FetchOutcomesOver(T, E) ==
    LET resps == {Response(OK_STATUS, FALSE, t) : t \in T}
                   \cup {Response(NOT_FOUND, FALSE, t) : t \in E}
        blocked == {r \in resps : looks_like_antibot(r.text)}
    IN  {CrawlView(fetch_html(TRUE, Outcome(FALSE, r), FALSE, FhNoOutcome)) : r \in resps}
          \cup {CrawlView(fetch_html(TRUE, Outcome(FALSE, r), TRUE, fb)) :
                   r \in blocked, fb \in {Outcome(FALSE, f) : f \in resps} \cup {FhNoOutcome}}
          \cup {CrawlView(fetch_html(TRUE, FhNoOutcome, FALSE, FhNoOutcome))}

RobotsFetchOutcomes == FetchOutcomesOver(RobotsTexts, {EmptyText, AntibotPage})
SitemapFetchOutcomes == FetchOutcomesOver(SitemapTexts, ErrorTexts)

\* What the crawl saw of its last fetch: which loop made it and the facts of
\* the response the two loops test.
LastFetch(level, o) ==
    [level |-> level, raised |-> o.raised, status |-> o.status_code,
     nonEmpty |-> o.text.nonEmpty, lead |-> o.text.lead,
     wellFormed |-> o.text.wellFormed, tag |-> o.text.tag, nlocs |-> Len(o.text.locs)]
NoFetch == LastFetch("none", CrawlView(Raised))

\* The response of a fetch is one the crawl cannot use: a status other than
\* 200, an empty body, a body that is not XML-like, or one that does not parse.
IsBadResponse(l) ==
    /\ ~l.raised
    /\ (l.status # OK_STATUS \/ ~l.nonEmpty \/ l.lead \notin XmlLeads \/ ~l.wellFormed)

CwInit ==
    /\ cwPc = "start"
    /\ cwMax \in CapValues
    /\ cwCands = <<>>
    /\ cwLocs = <<>>
    /\ cwCLocs = <<>>
    /\ cwUrls = {}
    /\ cwResult = <<>>
    /\ cwFetched = 0
    /\ cwLast = NoFetch
    /\ cwGood = {}
    /\ cwSkippedAt = "none"
    /\ cwNCands = 0
    /\ cwIndexLocs = 0

\* The part is not running.
CwIdle ==
    /\ cwPc = "idle"
    /\ cwMax = "idle"
    /\ cwCands = "idle"
    /\ cwLocs = "idle"
    /\ cwCLocs = "idle"
    /\ cwUrls = "idle"
    /\ cwResult = "idle"
    /\ cwFetched = "idle"
    /\ cwLast = "idle"
    /\ cwGood = "idle"
    /\ cwSkippedAt = "idle"
    /\ cwNCands = "idle"
    /\ cwIndexLocs = "idle"

\* The elements of a sequence.
Elems(q) == {q[i] : i \in 1..Len(q)}

\* Line 85: discover_sitemaps fetches robots.txt, whatever its status.
CwDiscover ==
    /\ cwPc = "start"
    /\ \E o \in RobotsFetchOutcomes :
          /\ cwLast' = LastFetch("robots", o)
          /\ IF o.raised
             THEN cwPc' = "raised" /\ cwCands' = <<>>
             ELSE cwPc' = "root" /\ cwCands' = discover_sitemaps(o.text)
    /\ cwNCands' = Len(cwCands')
    /\ cwFetched' = cwFetched + 1
    /\ UNCHANGED <<cwMax, cwLocs, cwCLocs, cwUrls, cwResult, cwGood, cwSkippedAt, cwIndexLocs>>
    /\ UNCHANGED <<tsVars, dtVars, itVars, fhVars, peVars, bdVars>>

\* Lines 89-108: the next candidate is fetched and classified.
CwFetchRoot ==
    /\ cwPc = "root"
    /\ cwCands # <<>>
    /\ \E o \in SitemapFetchOutcomes :
          LET what == IF o.raised THEN "raise" ELSE Classify(o)
          IN  /\ cwLast' = LastFetch("root", o)
              /\ cwPc' = CASE what = "raise" -> "raised"
                           [] what = "urlset" -> "rootloc"
                           [] what = "sitemapindex" -> "child"
                           [] OTHER -> "root"
              /\ cwLocs' = IF what \in {"urlset", "sitemapindex"}
                           THEN parse_sitemap_xml(o.text).locs ELSE <<>>
              /\ cwGood' = IF what = "urlset"
                           THEN cwGood \cup Elems(o.text.locs) ELSE cwGood
              /\ cwSkippedAt' = IF IsBadResponse(LastFetch("root", o)) THEN "root"
                                ELSE cwSkippedAt
              /\ cwIndexLocs' = IF what = "sitemapindex"
                                THEN cwIndexLocs + Len(parse_sitemap_xml(o.text).locs)
                                ELSE cwIndexLocs
    /\ cwCands' = Tail(cwCands)
    /\ cwFetched' = cwFetched + 1
    /\ UNCHANGED <<cwMax, cwCLocs, cwUrls, cwResult, cwNCands>>
    /\ UNCHANGED <<tsVars, dtVars, itVars, fhVars, peVars, bdVars>>

\* Lines 102-104: the next loc of a root urlset.
CwRootLoc ==
    /\ cwPc = "rootloc"
    /\ cwLocs # <<>>
    /\ cwLocs' = Tail(cwLocs)
    /\ IF is_news_url(Head(cwLocs))
       THEN cwUrls' = cwUrls \cup {Head(cwLocs)} /\ cwPc' = "rootadded"
       ELSE UNCHANGED <<cwUrls, cwPc>>
    /\ UNCHANGED <<cwMax, cwCands, cwCLocs, cwResult, cwFetched, cwLast, cwGood, cwSkippedAt,
                   cwNCands, cwIndexLocs>>
    /\ UNCHANGED <<tsVars, dtVars, itVars, fhVars, peVars, bdVars>>

\* Lines 105-106: the test of the cap after an add, in a root urlset.
CwRootCheck ==
    /\ cwPc = "rootadded"
    /\ IF CapReached(cwUrls, cwMax)
       THEN cwPc' = "returned" /\ cwResult' = Result(cwUrls, cwMax)
       ELSE cwPc' = "rootloc" /\ UNCHANGED cwResult
    /\ UNCHANGED <<cwMax, cwCands, cwLocs, cwCLocs, cwUrls, cwFetched, cwLast, cwGood,
                   cwSkippedAt,
                   cwNCands, cwIndexLocs>>
    /\ UNCHANGED <<tsVars, dtVars, itVars, fhVars, peVars, bdVars>>

\* Line 102: the root urlset has no loc left.
CwRootLocsDone ==
    /\ cwPc = "rootloc"
    /\ cwLocs = <<>>
    /\ cwPc' = "root"
    /\ UNCHANGED <<cwMax, cwCands, cwLocs, cwCLocs, cwUrls, cwResult, cwFetched, cwLast,
                   cwGood, cwSkippedAt,
                   cwNCands, cwIndexLocs>>
    /\ UNCHANGED <<tsVars, dtVars, itVars, fhVars, peVars, bdVars>>

\* Mutant: the locs of a child that is itself a sitemap index are fetched too.
ChildrenLeftExpanded(rest, what, text) ==
    IF what = "sitemapindex" THEN parse_sitemap_xml(text).locs \o rest ELSE rest

\* Lines 110-121: the children still to fetch after one child was handled;
\* whatever the child is, its locs are not added to them.
ChildrenLeft(rest, what, text) == rest

\* Lines 110-121: the next child of a root sitemap index is fetched and
\* classified; a child that is not a urlset is left out.
CwFetchChild ==
    /\ cwPc = "child"
    /\ cwLocs # <<>>
    /\ \E o \in SitemapFetchOutcomes :
          LET what == IF o.raised THEN "raise" ELSE Classify(o)
          IN  /\ cwLast' = LastFetch("child", o)
              /\ cwPc' = CASE what = "raise" -> "raised"
                           [] what = "urlset" -> "childloc"
                           [] OTHER -> "child"
              /\ cwCLocs' = IF what = "urlset"
                            THEN parse_sitemap_xml(o.text).locs ELSE <<>>
              /\ cwGood' = IF what = "urlset"
                           THEN cwGood \cup Elems(o.text.locs) ELSE cwGood
              /\ cwSkippedAt' = IF IsBadResponse(LastFetch("child", o)) THEN "child"
                                ELSE cwSkippedAt
              /\ cwLocs' = ChildrenLeft(Tail(cwLocs), what, o.text)
    /\ cwFetched' = cwFetched + 1
    /\ UNCHANGED <<cwMax, cwCands, cwUrls, cwResult, cwNCands, cwIndexLocs>>
    /\ UNCHANGED <<tsVars, dtVars, itVars, fhVars, peVars, bdVars>>

\* Lines 122-124: the next loc of a child urlset.
CwChildLoc ==
    /\ cwPc = "childloc"
    /\ cwCLocs # <<>>
    /\ cwCLocs' = Tail(cwCLocs)
    /\ IF is_news_url(Head(cwCLocs))
       THEN cwUrls' = cwUrls \cup {Head(cwCLocs)} /\ cwPc' = "childadded"
       ELSE UNCHANGED <<cwUrls, cwPc>>
    /\ UNCHANGED <<cwMax, cwCands, cwLocs, cwResult, cwFetched, cwLast, cwGood, cwSkippedAt,
                   cwNCands, cwIndexLocs>>
    /\ UNCHANGED <<tsVars, dtVars, itVars, fhVars, peVars, bdVars>>

\* Lines 125-126: the test of the cap after an add, in a child urlset.
CwChildCheck ==
    /\ cwPc = "childadded"
    /\ IF CapReached(cwUrls, cwMax)
       THEN cwPc' = "returned" /\ cwResult' = Result(cwUrls, cwMax)
       ELSE cwPc' = "childloc" /\ UNCHANGED cwResult
    /\ UNCHANGED <<cwMax, cwCands, cwLocs, cwCLocs, cwUrls, cwFetched, cwLast, cwGood,
                   cwSkippedAt,
                   cwNCands, cwIndexLocs>>
    /\ UNCHANGED <<tsVars, dtVars, itVars, fhVars, peVars, bdVars>>

\* Line 122: the child urlset has no loc left.
CwChildLocsDone ==
    /\ cwPc = "childloc"
    /\ cwCLocs = <<>>
    /\ cwPc' = "child"
    /\ UNCHANGED <<cwMax, cwCands, cwLocs, cwCLocs, cwUrls, cwResult, cwFetched, cwLast,
                   cwGood, cwSkippedAt,
                   cwNCands, cwIndexLocs>>
    /\ UNCHANGED <<tsVars, dtVars, itVars, fhVars, peVars, bdVars>>

\* Line 110: the sitemap index has no child left.
CwChildrenDone ==
    /\ cwPc = "child"
    /\ cwLocs = <<>>
    /\ cwPc' = "root"
    /\ UNCHANGED <<cwMax, cwCands, cwLocs, cwCLocs, cwUrls, cwResult, cwFetched, cwLast,
                   cwGood, cwSkippedAt,
                   cwNCands, cwIndexLocs>>
    /\ UNCHANGED <<tsVars, dtVars, itVars, fhVars, peVars, bdVars>>

\* Line 128: no candidate is left.
CwFinish ==
    /\ cwPc = "root"
    /\ cwCands = <<>>
    /\ cwPc' = "returned"
    /\ cwResult' = Result(cwUrls, cwMax)
    /\ UNCHANGED <<cwMax, cwCands, cwLocs, cwCLocs, cwUrls, cwFetched, cwLast, cwGood,
                   cwSkippedAt,
                   cwNCands, cwIndexLocs>>
    /\ UNCHANGED <<tsVars, dtVars, itVars, fhVars, peVars, bdVars>>

CwNext ==
    \/ CwDiscover
    \/ CwFetchRoot
    \/ CwRootLoc
    \/ CwRootCheck
    \/ CwRootLocsDone
    \/ CwFetchChild
    \/ CwChildLoc
    \/ CwChildCheck
    \/ CwChildLocsDone
    \/ CwChildrenDone
    \/ CwFinish

(***************************************************************************)
(* Texts of the events.  A string is a sequence of tokens: "a" a letter,   *)
(* "." a full stop, "," a comma, " " a space, "nl" a line feed, "<b>" an   *)
(* HTML tag, "&nbsp;" and "&amp;" the two entities strip_html knows, "&"   *)
(* an ampersand; the labels of the generated texts and a formatted date    *)
(* are one token each.                                                     *)
(***************************************************************************)
\* \s of the regular expressions, and what str.strip() removes.
IsWs(t) == t \in {" ", "nl"}

\* Python evaluates an argument once, before the call: below, Of(x) is the
\* body of a function at the value x of its argument.

\* re.sub and str.replace of one token by another.
ReplaceTok(q, from, to) ==
    LET Of(x) == [i \in DOMAIN x |-> IF x[i] = from THEN to ELSE x[i]]
    IN  CHOOSE r \in {Of(x) : x \in {q}} : TRUE

\* _WS_RE.sub(" ", text): every run of whitespace becomes one space.
RECURSIVE CollapseWs(_)
CollapseWs(q) ==
    LET Of(x) ==
            IF x = <<>> THEN <<>>
            ELSE IF IsWs(Head(x))
                 THEN IF Tail(x) # <<>> /\ IsWs(Head(Tail(x)))
                      THEN CollapseWs(Tail(x))
                      ELSE <<" ">> \o CollapseWs(Tail(x))
                 ELSE <<Head(x)>> \o CollapseWs(Tail(x))
    IN  CHOOSE r \in {Of(x) : x \in {q}} : TRUE

\* str.lstrip(), str.rstrip() and str.strip().
RECURSIVE LStrip(_)
LStrip(q) ==
    LET Of(x) == IF x # <<>> /\ IsWs(Head(x)) THEN LStrip(Tail(x)) ELSE x
    IN  CHOOSE r \in {Of(x) : x \in {q}} : TRUE
RECURSIVE RStripWs(_)
RStripWs(q) ==
    LET Of(x) ==
            IF x # <<>> /\ IsWs(x[Len(x)]) THEN RStripWs(SubSeq(x, 1, Len(x) - 1)) ELSE x
    IN  CHOOSE r \in {Of(x) : x \in {q}} : TRUE
Strip(q) == RStripWs(LStrip(q))

\* q[:n].
Take(q, n) ==
    LET Of(x) == SubSeq(x, 1, IF Len(x) < n THEN Len(x) ELSE n)
    IN  CHOOSE r \in {Of(x) : x \in {q}} : TRUE

\* sep.join(parts).
RECURSIVE Join(_, _)
Join(parts, sep) ==
    LET Of(x) ==
            IF x = <<>> THEN <<>>
            ELSE IF Len(x) = 1 THEN x[1]
            ELSE x[1] \o sep \o Join(Tail(x), sep)
    IN  CHOOSE r \in {Of(x) : x \in {parts}} : TRUE

\* Lines 53-60: strip_html(text).
strip_html(text) ==
    IF text = <<>> THEN <<>>
    ELSE LET untagged == ReplaceTok(text, "<b>", " ")
             plain == ReplaceTok(ReplaceTok(untagged, "&nbsp;", " "), "&amp;", "&")
         IN  Strip(CollapseWs(plain))

\* A JSON value where the code expects a string:
\*   k = "none"    null, or the key is missing (dict.get gives None)
\*   k = "str"     the string s
\*   k = "truthy"  another value that is true (a number, a non-empty list)
\*   k = "falsy"   another value that is false (0, false, [], {})
JVal(k, str) == [k |-> k, s |-> str]
JNone == JVal("none", <<>>)
JStr(str) == JVal("str", str)
JTruthy == JVal("truthy", <<>>)
JFalsy == JVal("falsy", <<>>)

\* bool(v).
Truthy(v) == v.k = "truthy" \/ (v.k = "str" /\ v.s # <<>>)
\* str(v) for a v that is true: the text of a number or of a list is not blank.
PyStr(v) == IF v.k = "str" THEN v.s ELSE <<"a">>
\* str(v or "").
PyStrOr(v) == IF Truthy(v) THEN PyStr(v) ELSE <<>>

(***************************************************************************)
(* ts_to_local_str, parse_event, make_plan_text and make_news_text.        *)
(***************************************************************************)
\* mag \div d for a small d, limb by limb, r the remainder carried in.
RECURSIVE DivLimbs(_, _, _)
DivLimbs(mag, d, r) ==
    IF mag = <<>> THEN <<>>
    ELSE LET cur == r * FoldDivisor + Head(mag)
         IN  <<cur \div d>> \o DivLimbs(Tail(mag), d, cur % d)
RECURSIVE TrimZeros(_)
TrimZeros(mag) == IF mag # <<>> /\ Head(mag) = 0 THEN TrimZeros(Tail(mag)) ELSE mag

\* Lines 97-105: ts_to_local_str(ts_sec); the format '%Y-%m-%d %H:%M' names
\* the minute of the timestamp.  clock: datetime.fromtimestamp does not raise.
ts_to_local_str(ts, clock) ==
    IF IsNone(ts) \/ ~clock THEN <<>>
    ELSE <<ToString(TrimZeros(DivLimbs(ts.mag, 60, 0)))>>

\* A raw event, as the API gives it; a missing key reads as None.
RawEvent(id, title, short_title, description, site_url, dates, place, categories, tags) ==
    [id |-> id, title |-> title, short_title |-> short_title,
     description |-> description, site_url |-> site_url, dates |-> dates,
     place |-> place, categories |-> categories, tags |-> tags]
\* raw["place"]: a dict with a title and an address, or anything else.
PlaceVal(isDict, title, address) == [isDict |-> isDict, title |-> title, address |-> address]
\* raw["categories"], raw["tags"]: a list of values, or the value v.
ListVal(isList, items, v) == [isList |-> isList, items |-> items, v |-> v]

\* Lines 267-277: the text of categories and of tags.
JoinedText(c) ==
    IF c.isList
    THEN LET kept == SelectSeq(c.items, Truthy)
         IN  Join([i \in DOMAIN kept |-> PyStr(kept[i])], <<",", " ">>)
    ELSE PyStrOr(c.v)

\* What parse_event returns: None (dropped), or an EventRecord.
NoRecord == [dropped |-> TRUE]
Kept(ev) == [dropped |-> FALSE, ev |-> ev]

\* Mutant: the title is tested before the tags are stripped.
TitleOfRaw(raw) == Strip(PyStrOr(raw.title))

\* Line 248: strip_html(str(raw.get("title") or "")).strip().
TitleOf(raw) == Strip(strip_html(PyStrOr(raw.title)))

\* Lines 240-294: parse_event(raw, location).
parse_event(raw, location, clock) ==
    LET eid == safe_int(raw.id)
        title == TitleOf(raw)
        range == pick_best_date_range(raw.dates)
        isPlace == raw.place.isDict
    IN  IF IsNone(eid) THEN NoRecord
        ELSE IF title = <<>> THEN NoRecord
        ELSE Kept([id |-> eid,
                   title |-> title,
                   short_title |-> Strip(strip_html(PyStrOr(raw.short_title))),
                   description |-> Strip(strip_html(PyStrOr(raw.description))),
                   location |-> location,
                   site_url |-> Strip(PyStrOr(raw.site_url)),
                   start_ts |-> range.s,
                   end_ts |-> range.e,
                   start_str |-> ts_to_local_str(range.s, clock),
                   end_str |-> ts_to_local_str(range.e, clock),
                   place |-> IF isPlace THEN Strip(strip_html(PyStrOr(raw.place.title)))
                             ELSE <<>>,
                   address |-> IF isPlace THEN Strip(strip_html(PyStrOr(raw.place.address)))
                               ELSE <<>>,
                   categories |-> JoinedText(raw.categories),
                   tags |-> JoinedText(raw.tags)])

\* str.rstrip(".").
RECURSIVE RStripDot(_)
RStripDot(q) ==
    LET Of(x) ==
            IF x # <<>> /\ x[Len(x)] = "." THEN RStripDot(SubSeq(x, 1, Len(x) - 1)) ELSE x
    IN  CHOOSE r \in {Of(x) : x \in {q}} : TRUE

\* f"{label} {text}".
Labelled(label, text) == <<label, " ">> \o text

\* Lines 297-324: make_plan_text(ev).
make_plan_text(ev) ==
    LET parts ==
            <<Labelled("Event:", ev.title)>>
            \o (IF ev.location # <<>> THEN <<Labelled("City:", ev.location)>> ELSE <<>>)
            \o (IF ev.place # <<>> THEN <<Labelled("Place:", ev.place)>> ELSE <<>>)
            \o (IF ev.address # <<>> THEN <<Labelled("Address:", ev.address)>> ELSE <<>>)
            \o (IF ev.start_str # <<>>
                THEN IF ev.end_str # <<>> /\ ev.end_str # ev.start_str
                     THEN <<Labelled("When:", ev.start_str \o <<" ", "-", " ">> \o ev.end_str)>>
                     ELSE <<Labelled("When:", ev.start_str)>>
                ELSE <<>>)
            \o (IF ev.categories # <<>> THEN <<Labelled("Categories:", ev.categories)>>
                ELSE <<>>)
            \o (IF ev.tags # <<>> THEN <<Labelled("Tags:", ev.tags)>> ELSE <<>>)
            \o (IF ev.description # <<>>
                THEN <<Labelled("Description:", Strip(Take(ev.description, 320)))>>
                ELSE <<>>)
    IN  Strip(Join(parts, <<"nl">>))

\* Mutant: the headline is kept as it is, with no full stop added.
Headline(base) == RStripDot(base)

\* Line 339: base.rstrip(".") + ".".
Sentence(base) == RStripDot(base) \o <<".">>

\* Lines 327-351: make_news_text(ev).
make_news_text(ev) ==
    LET base == IF ev.short_title # <<>> THEN ev.short_title ELSE ev.title
        chunk == IF ev.description # <<>> THEN Strip(Take(ev.description, 420)) ELSE <<>>
        when == IF ev.start_str = <<>> THEN <<>>
                ELSE IF ev.end_str = <<>> THEN ev.start_str
                ELSE ev.start_str \o <<"-">> \o ev.end_str
        pieces ==
            <<Sentence(base)>>
            \o (IF when # <<>> THEN <<Labelled("Date:", when) \o <<".">>>> ELSE <<>>)
            \o (IF ev.place # <<>> THEN <<Labelled("Place:", ev.place) \o <<".">>>> ELSE <<>>)
            \o (IF chunk # <<>> THEN <<RStripDot(chunk) \o <<".">>>> ELSE <<>>)
            \o (IF ev.site_url # <<>> THEN <<Labelled("More:", ev.site_url)>> ELSE <<>>)
    IN  Strip(CollapseWs(Join(pieces, <<" ">>)))

\* The values of the fields of the raw events parse_event is run on.
IdVals ==
    {NoneV, Num(1), Num(2), IntV(TRUE, <<1>>), PyVal("str", FALSE, <<1>>, FALSE),
     PyVal("float", FALSE, <<1>>, TRUE), PyVal("nan", FALSE, <<>>, FALSE),
     PyVal("badstr", FALSE, <<>>, FALSE), PyVal("other", FALSE, <<>>, FALSE)}
TitleVals ==
    {JNone, JFalsy, JTruthy, JStr(<<>>), JStr(<<" ">>), JStr(<<"<b>">>),
     JStr(<<"&nbsp;">>), JStr(<<"<b>", " ", "&nbsp;", "nl">>), JStr(<<"a">>),
     JStr(<<"<b>", "a", "<b>">>), JStr(<<"&amp;">>), JStr(<<".">>)}
ShortTitleVals == {JNone, JStr(<<".">>), JStr(<<"a", ".">>)}
DescriptionVals == {JNone, JStr(<<"a", ".", " ", "a">>), JStr(<<"<b>">>), JTruthy}
SiteUrlVals == {JNone, JStr(<<"u">>)}
EventDates ==
    {DatesVal(FALSE, <<>>), ExampleDates,
     DatesVal(TRUE, <<DateItem(TRUE, Num(50), Num(100)), DateItem(FALSE, NoneV, NoneV)>>)}
PlaceVals ==
    {PlaceVal(FALSE, JNone, JNone), PlaceVal(TRUE, JStr(<<"a">>), JNone),
     PlaceVal(TRUE, JStr(<<"<b>">>), JStr(<<"a">>))}
ListVals ==
    {ListVal(FALSE, <<>>, JNone), ListVal(FALSE, <<>>, JTruthy),
     ListVal(TRUE, <<JStr(<<"a">>), JStr(<<>>), JTruthy>>, JNone)}
RawEvents ==
    {RawEvent(id, t, st, d, u, dt, pl, c, c) :
        id \in IdVals, t \in TitleVals, st \in ShortTitleVals, d \in DescriptionVals,
        u \in SiteUrlVals, dt \in EventDates, pl \in PlaceVals, c \in ListVals}
\* The `location` argument: a city code, or "".
Locations == {<<"a">>, <<>>}

PeInit ==
    /\ pePc = "call"
    /\ peRaw \in RawEvents
    /\ peClock \in BOOLEAN
    /\ peOut = NoRecord

\* The part is not running.
PeIdle ==
    /\ pePc = "idle"
    /\ peRaw = "idle"
    /\ peClock = "idle"
    /\ peOut = "idle"

\* One call of parse_event.
PeParse ==
    /\ pePc = "call"
    /\ \E location \in Locations : peOut' = parse_event(peRaw, location, peClock)
    /\ pePc' = "ret"
    /\ UNCHANGED <<peRaw, peClock>>
    /\ UNCHANGED <<tsVars, dtVars, itVars, fhVars, cwVars, bdVars>>

PeNext == PeParse

(***************************************************************************)
(* build_dataset: the harvest loop over the items iter_events yields.      *)
(***************************************************************************)
\* The largest `pages` argument of the harvest runs.
MaxRunPages == 2

\* The raw events the API serves in the harvest runs: events 1 and 2, event
\* 1 again in another form, an event titled "." only, and two events
\* parse_event drops.
PlainEvent(id, title, short_title, description) ==
    RawEvent(id, title, short_title, description, JNone, DatesVal(FALSE, <<>>),
             PlaceVal(FALSE, JNone, JNone), ListVal(FALSE, <<>>, JNone),
             ListVal(FALSE, <<>>, JNone))
RunEvents ==
    {PlainEvent(Num(1), JStr(<<"a">>), JNone, JNone),
     PlainEvent(Num(2), JStr(<<".">>), JStr(<<".">>), JNone),
     RawEvent(PyVal("str", FALSE, <<1>>, FALSE), JStr(<<"<b>", "a", "<b>">>), JNone,
              JStr(<<"a", ".", " ", "a">>), JStr(<<"u">>), ExampleDates,
              PlaceVal(TRUE, JStr(<<"a">>), JNone), ListVal(FALSE, <<>>, JNone),
              ListVal(FALSE, <<>>, JNone)),
     PlainEvent(NoneV, JStr(<<"a">>), JNone, JNone),
     PlainEvent(Num(2), JStr(<<"<b>">>), JNone, JNone)}

\* An element of `results`: a dict (a raw event), or anything else.
RunItem(isDict, raw) == [isDict |-> isDict, raw |-> raw]
RunItems ==
    {RunItem(TRUE, e) : e \in RunEvents}
      \cup {RunItem(FALSE, PlainEvent(NoneV, JNone, JNone, JNone))}

\* What get_json does for one page of a harvest run.
RunApiOutcomes ==
    {ApiOutcome(FALSE, ResultsVal("list", q)) : q \in SeqsUpTo(RunItems, MaxPageItems)}
      \cup {ApiOutcome(FALSE, ResultsVal("missing", <<>>)),
            ApiOutcome(TRUE, ResultsVal("missing", <<>>))}

\* The --location of the run (line 489).
RunLocation == <<"a">>

\* Lines 450-458: one element of `pairs`.
Pair(ev, src, tgt) ==
    [id |-> ev.id, location |-> ev.location, source |-> src, target |-> tgt,
     site_url |-> ev.site_url, start_str |-> ev.start_str, end_str |-> ev.end_str]

BdInit ==
    /\ bdPc = "next"
    /\ bdPages \in 1..MaxRunPages
    /\ bdMakePairs \in BOOLEAN
    /\ bdPage = 0
    /\ bdItems = <<>>
    /\ bdRawEvents = <<>>
    /\ bdPairs = <<>>

\* Lines 439 and 376-388: the loop asks iter_events for the next item and
\* the generator requests the next page; an exception of get_json ends the
\* run with nothing saved, the end of the data ends the loop (lines 460-478).
BdRequestPage ==
    /\ bdPc = "next"
    /\ bdItems = <<>>
    /\ bdPage < bdPages
    /\ \E out \in RunApiOutcomes :
          IF out.raises
          THEN bdPc' = "error" /\ bdItems' = <<>>
          ELSE IF IsEndOfData(out.results)
               THEN bdPc' = "saved" /\ bdItems' = <<>>
               ELSE bdPc' = "next" /\ bdItems' = out.results.items
    /\ bdPage' = bdPage + 1
    /\ UNCHANGED <<bdPages, bdMakePairs, bdRawEvents, bdPairs>>
    /\ UNCHANGED <<tsVars, dtVars, itVars, fhVars, cwVars, peVars>>

\* Lines 389-391 and 440-458: the next item of the page; a dict is yielded
\* and the loop body parses it, keeps the record and builds its pair.
BdItem ==
    /\ bdPc = "next"
    /\ bdItems # <<>>
    /\ bdItems' = Tail(bdItems)
    /\ \E clock \in BOOLEAN :
       \E out \in {parse_event(Head(bdItems).raw, RunLocation, clock)} :
          IF ~Head(bdItems).isDict \/ out.dropped
          THEN UNCHANGED <<bdRawEvents, bdPairs>>
          ELSE /\ bdRawEvents' = Append(bdRawEvents, out.ev)
               /\ \E src \in {make_plan_text(out.ev)}, tgt \in {make_news_text(out.ev)} :
                     bdPairs' = IF bdMakePairs /\ src # <<>> /\ tgt # <<>>
                                THEN Append(bdPairs, Pair(out.ev, src, tgt))
                                ELSE bdPairs
    /\ UNCHANGED <<bdPc, bdPages, bdMakePairs, bdPage>>
    /\ UNCHANGED <<tsVars, dtVars, itVars, fhVars, cwVars, peVars>>

\* Lines 376 and 460-478: the pages are exhausted; the lists are saved.
BdExhausted ==
    /\ bdPc = "next"
    /\ bdItems = <<>>
    /\ bdPage >= bdPages
    /\ bdPc' = "saved"
    /\ UNCHANGED <<bdPages, bdMakePairs, bdPage, bdItems, bdRawEvents, bdPairs>>
    /\ UNCHANGED <<tsVars, dtVars, itVars, fhVars, cwVars, peVars>>

BdNext == BdRequestPage \/ BdItem \/ BdExhausted

\* The part is not running.
BdIdle ==
    /\ bdPc = "idle"
    /\ bdPages = "idle"
    /\ bdMakePairs = "idle"
    /\ bdPage = "idle"
    /\ bdItems = "idle"
    /\ bdRawEvents = "idle"
    /\ bdPairs = "idle"

(***************************************************************************)
(* The specifications: one per part of the program, the other parts idle.  *)
(***************************************************************************)
\* normalize_unix_ts over its inputs.
InitTs == TsInit /\ DtIdle /\ ItIdle /\ FhIdle /\ CwIdle /\ PeIdle /\ BdIdle
SpecTs == InitTs /\ [][TsNext]_vars

\* pick_best_date_range over its inputs.
InitDates == DtInit /\ TsIdle /\ ItIdle /\ FhIdle /\ CwIdle /\ PeIdle /\ BdIdle
SpecDates == InitDates /\ [][DtNext]_vars

\* One run of iter_events.
InitIter == ItInit /\ TsIdle /\ DtIdle /\ FhIdle /\ CwIdle /\ PeIdle /\ BdIdle
SpecIter == InitIter /\ [][ItNext]_vars

\* One call of fetch_html.
InitFetch == FhInit /\ TsIdle /\ DtIdle /\ ItIdle /\ CwIdle /\ PeIdle /\ BdIdle
SpecFetch == InitFetch /\ [][FhNext]_vars

\* parse_event over raw events.
InitParse == PeInit /\ TsIdle /\ DtIdle /\ ItIdle /\ FhIdle /\ CwIdle /\ BdIdle
SpecParse == InitParse /\ [][PeNext]_vars

\* One harvest run of build_dataset.
InitDataset == BdInit /\ TsIdle /\ DtIdle /\ ItIdle /\ FhIdle /\ CwIdle /\ PeIdle
SpecDataset == InitDataset /\ [][BdNext]_vars

\* One call of collect_news_urls_from_sitemap.
InitCrawl == CwInit /\ TsIdle /\ DtIdle /\ ItIdle /\ FhIdle /\ PeIdle /\ BdIdle
SpecCrawl == InitCrawl /\ [][CwNext]_vars

(***************************************************************************)
(* The claims.                                                             *)
(***************************************************************************)

\* C1: iter_events requests the pages in the order 1, 2, 3, ..., at most
\* `pages` of them, and a page whose `results` is empty, missing or not a list
\* is the last one requested and ends the sequence normally (not in error).
C1_PagesInOrderStopOnEmpty ==
    /\ Len(itRequested) <= itPages
    /\ Len(itResponses) = Len(itRequested)
    /\ \A i \in 1..Len(itRequested) : itRequested[i] = i
    /\ \A i \in 1..Len(itResponses) :
          itResponses[i] \in {"empty", "missing", "nonlist"}
              => i = Len(itRequested) /\ itPc = "done"

\* C1's case: three pages were asked for, page 2 came back empty, and the
\* run is over with page 3 never requested.
C1_Witness ==
    /\ itPc = "done"
    /\ itPages = 3
    /\ itResponses = <<"items", "empty">>
    /\ itRequested = <<1, 2>>

\* The input is a number int() turns into a negative integer.
TsNegative(x) == x.k \in {"int", "float", "str"} /\ x.neg /\ x.mag # <<>>
\* The input is not a number.
TsNonNumeric(x) == x.k \in {"none", "nan", "badstr", "other"}

\* C8 as stated: None for every negative input, every non-numeric input and
\* every value above 4,102,444,800; every other result within [0, 4,102,444,800].
C8_Original ==
    tsPc # "call" =>
        /\ (tsIn.k \in {"int", "float", "str"} /\ tsIn.neg /\ (tsIn.mag # <<>> \/ tsIn.frac)
               => IsNone(tsOut))
        /\ (TsNonNumeric(tsIn) => IsNone(tsOut))
        /\ (IsInt(tsIn) /\ IntLess(MAX_TS, tsIn) => IsNone(tsOut))
        /\ (~IsNone(tsOut) => IsInt(tsOut) /\ IntLeq(Zero, tsOut) /\ IntLeq(tsOut, MAX_TS))

\* C8, amended: None for every input whose integer value is negative, every
\* non-numeric input, every integer v with 4,102,444,800 < v <= 10,000,000,000
\* and every integer v > 10,000,000,000 with v // 1000 > 4,102,444,800; an
\* integer v > 10,000,000,000 with v // 1000 <= 4,102,444,800 gives v // 1000;
\* every result that is not None lies within [0, 4,102,444,800].
C8_NormalizeRange ==
    tsPc # "call" =>
        /\ (TsNegative(tsIn) => IsNone(tsOut))
        /\ (TsNonNumeric(tsIn) => IsNone(tsOut))
        /\ (IsInt(tsIn) /\ IntLess(MAX_TS, tsIn) /\ IntLeq(tsIn, MS_THRESHOLD)
               => IsNone(tsOut))
        /\ (IsInt(tsIn) /\ IntLess(MS_THRESHOLD, tsIn)
               => IF IntLess(MAX_TS, FloorDiv1000(tsIn)) THEN IsNone(tsOut)
                  ELSE tsOut = FloorDiv1000(tsIn))
        /\ (~IsNone(tsOut) => IsInt(tsOut) /\ IntLeq(Zero, tsOut) /\ IntLeq(tsOut, MAX_TS))

\* C8's case: 4,102,444,801, one above the bound and not a millisecond
\* value, has been rejected.
C8_Witness ==
    /\ tsPc = "ret"
    /\ tsIn = NatV(<<4, 102, 444, 801>>)
    /\ IsNone(tsOut)

\* C9 as stated: for every integer v > 10,000,000,000,
\* normalize_unix_ts(v) = normalize_unix_ts(v // 1000).
C9_Original == tsPc = "refolded" => tsOut2 = tsOut

\* C9, amended: for every integer v > 10,000,000,000 whose folded value
\* v // 1000 is at most 10,000,000,000, normalize_unix_ts(v) =
\* normalize_unix_ts(v // 1000); for a larger v, normalize_unix_ts(v) is None.
C9_FoldOnce ==
    tsPc = "refolded" =>
        IF IntLeq(FloorDiv1000(tsIn), MS_THRESHOLD) THEN tsOut2 = tsOut ELSE IsNone(tsOut)

\* C9's case: a millisecond value was folded to a timestamp within range,
\* and normalising the folded value gave the same timestamp.
C9_Witness ==
    /\ tsPc = "refolded"
    /\ ~IsNone(tsOut)
    /\ tsOut2 = tsOut

\* The ranges of `dates` with a usable start, as a set of positions.
DtValid ==
    {i \in 1..Len(dtIn.items) :
        dtIn.items[i].isDict /\ ~IsNone(normalize_unix_ts(dtIn.items[i].start))}
DtStart(i) == normalize_unix_ts(dtIn.items[i].start)
DtEnd(i) == normalize_unix_ts(dtIn.items[i].end)

\* C10: pick_best_date_range returns the least usable start; as end, an end
\* paired with that start and >= it if there is one, otherwise the least end
\* >= the start over all the ranges, otherwise None; (None, None) when no
\* range has a usable start.  The spec's example gives start 50, end 200.
C10_PickBestDateRange ==
    dtPc = "ret" =>
        /\ (~dtIn.isList \/ DtValid = {} => dtOut = Range(NoneV, NoneV))
        /\ (dtIn.isList /\ DtValid # {} =>
              LET paired == {DtEnd(i) : i \in {j \in DtValid :
                                DtStart(j) = dtOut.s /\ ~IsNone(DtEnd(j))
                                  /\ IntLeq(dtOut.s, DtEnd(j))}}
                  later == {DtEnd(i) : i \in {j \in DtValid :
                                ~IsNone(DtEnd(j)) /\ IntLeq(dtOut.s, DtEnd(j))}}
              IN  /\ \E i \in DtValid : DtStart(i) = dtOut.s
                  /\ \A i \in DtValid : IntLeq(dtOut.s, DtStart(i))
                  /\ IF paired # {} THEN dtOut.e \in paired
                     ELSE IF later # {}
                          THEN dtOut.e \in later /\ \A e \in later : IntLeq(dtOut.e, e)
                          ELSE IsNone(dtOut.e))
        /\ (dtIn = ExampleDates => dtOut = Range(Num(50), Num(200)))

\* C10's case: the example list has been given and start 50, end 200 came back.
C10_Witness ==
    /\ dtPc = "ret"
    /\ dtIn = ExampleDates
    /\ dtOut = Range(Num(50), Num(200))

\* Whether the fallback transport was to be used: the primary body is an
\* anti-bot page, the fallback is allowed and cloudscraper can be imported.
FhFallbackDue == looks_like_antibot(fhPrim.resp.text) /\ fhAllow /\ fhImportable

\* C7: a result of fetch_html has used_cloudscraper = TRUE exactly when the
\* primary body was classified anti-bot, the fallback was allowed and the
\* fallback transport is available; then status, final URL, body and flag
\* are the fallback response's; otherwise they are the primary response's,
\* with used_cloudscraper = FALSE.
C7_FallbackFlag ==
    fhPc = "ret" =>
        /\ fhRes.used_cloudscraper <=> FhFallbackDue
        /\ LET from == IF FhFallbackDue THEN fhFb.resp ELSE fhPrim.resp
           IN  /\ fhRes.status_code = from.status
               /\ fhRes.final_redirected = from.redirected
               /\ fhRes.text = from.text
               /\ fhRes.looks_like_antibot = looks_like_antibot(from.text)

\* C7's case: the fallback was used and its response, another one than the
\* primary's, is what came back.
C7_Witness ==
    /\ fhPc = "ret"
    /\ fhRes.used_cloudscraper
    /\ fhRes.text # fhPrim.resp.text
    /\ fhRes.status_code # fhPrim.resp.status

\* r is in ascending order without a repeated element.
StrictlySorted(r) == \A i, j \in 1..Len(r) : i < j => StrLess(r[i], r[j])

\* C2 as stated: for every max_urls the list returned is sorted ascending,
\* has no duplicate, has length <= max_urls and holds only news URLs.
C2_Original ==
    cwPc = "returned" =>
        /\ StrictlySorted(cwResult)
        /\ Len(cwResult) <= cwMax
        /\ \A i \in 1..Len(cwResult) : is_news_url(cwResult[i])

\* C2, amended: for every max_urls >= 0 the list returned is sorted
\* ascending, has no duplicate, has length <= max_urls and holds only news
\* URLs (for a negative max_urls all but the bound on the length holds).
C2_ResultSortedCapped ==
    cwPc = "returned" =>
        /\ StrictlySorted(cwResult)
        /\ (cwMax >= 0 => Len(cwResult) <= cwMax)
        /\ \A i \in 1..Len(cwResult) :
              StartsWith(cwResult[i], NEWS_PREFIX)
                /\ cwResult[i] \notin {<<PN, SL>>, <<PN>>, <<PN, SL, SL>>}

\* C2's case: a crawl with max_urls = 2 has returned two URLs, and the
\* urlsets it walked held a loc outside the news and more news locs than that.
C2_Witness ==
    /\ cwPc = "returned"
    /\ cwMax = 2
    /\ Len(cwResult) = 2
    /\ \E u \in cwGood : ~StartsWith(u, NEWS_PREFIX)
    /\ Cardinality({u \in cwGood : StartsWith(u, NEWS_PREFIX) /\ Len(u) > 2}) > 2

\* C3 as stated, for a maximum that a set can respect (max_urls >= 0): at
\* every point of the crawl the accumulator holds at most max_urls URLs.
C3_AccumulatorWithinCap == cwMax >= 0 => Cardinality(cwUrls) <= cwMax

\* C4: when an add brings the accumulator to max_urls, the next thing the
\* crawl does is return, without another fetch, and (max_urls >= 0) with
\* exactly max_urls URLs; a crawl that has returned does nothing more; and
\* no fetch is made once something was added and the cap is reached.
C4_ReturnsAtCap ==
    [][/\ cwPc # "returned"
       /\ (cwPc \in {"rootadded", "childadded"} /\ Cardinality(cwUrls) >= cwMax
             => /\ cwPc' = "returned"
                /\ cwFetched' = cwFetched
                /\ (cwMax >= 0 => Len(cwResult') = cwMax))
       /\ (cwFetched' # cwFetched => cwUrls = {} \/ Cardinality(cwUrls) < cwMax)]_vars

\* C4's case: with max_urls = 2 the crawl has returned two URLs while the
\* urlset it was walking still had locs to visit and a candidate was left.
C4_Witness ==
    /\ cwPc = "returned"
    /\ cwMax = 2
    /\ Len(cwResult) = 2
    /\ cwLocs # <<>>
    /\ cwCands # <<>>

\* C5: a candidate or child whose response has a status other than 200, an
\* empty body, a body that is not XML-like or one that does not parse adds
\* nothing to the accumulator and raises nothing, and the crawl goes on with
\* the next candidate or child; a crawl that runs out of candidates returns
\* the news locs of the urlsets it walked, sorted.
C5_BadDocumentSkipped ==
    [][/\ (cwFetched' = cwFetched + 1 /\ cwLast'.level \in {"root", "child"}
              /\ IsBadResponse(cwLast')
             => /\ cwUrls' = cwUrls
                /\ cwGood' = cwGood
                /\ cwPc' = cwLast'.level
                /\ IF cwLast'.level = "root"
                   THEN cwCands' = Tail(cwCands)
                   ELSE cwLocs' = Tail(cwLocs) /\ cwCands' = cwCands)
       /\ (cwPc = "root" /\ cwPc' = "returned"
             => cwResult' = PySlice(Sorted({u \in cwGood : is_news_url(u)}), cwMax))]_vars

\* C5's case: robots.txt, a sitemap index and its two children were fetched,
\* a child's response was unusable, and the three news locs of the other
\* child came back.
C5_Witness ==
    /\ cwPc = "returned"
    /\ cwFetched = 4
    /\ cwLast.level = "child"
    /\ cwSkippedAt = "child"
    /\ cwResult = <<<<PN, SL, CA>>, <<PN, SL, CA, SL>>, <<PN, SL, CB>>>>

\* C6 as stated: the failure of the fetch of one root candidate or one index
\* child is not raised to the caller, and the URLs gathered from the other
\* documents are still returned.
C6_FetchFailureContained ==
    ~(cwPc = "raised" /\ cwLast.level \in {"root", "child"} /\ cwUrls # {})

\* The four signals of an anti-bot page, and those a body matches.
AntibotSignals == {"robots", "class", "gif", "javascript"}
SignalsOf(text) ==
    {g \in AntibotSignals :
        CASE g = "robots"     -> {"noindex", "noarchive"} \subseteq text.marks
          [] g = "class"      -> "gorizontal-vertikal" \in text.marks
          [] g = "gif"        -> "data:image/gif;base64" \in text.marks
          [] g = "javascript" -> "enable javascript" \in text.marks}

\* C11: the anti-bot flag of a body is true exactly when the body matches at
\* least 2 of the 4 signals: true for a body with noindex, noarchive and the
\* obfuscation class, false for a body matching one signal only and for the
\* empty body.
C11_AntibotAtLeastTwoSignals ==
    fhPc = "ret" =>
        LET t == fhRes.text
        IN  /\ fhRes.looks_like_antibot <=> Cardinality(SignalsOf(t)) >= 2
            /\ ({"noindex", "noarchive", "gorizontal-vertikal"} \subseteq t.marks
                  => fhRes.looks_like_antibot)
            /\ (Cardinality(SignalsOf(t)) = 1 => ~fhRes.looks_like_antibot)
            /\ (~t.nonEmpty => ~fhRes.looks_like_antibot)

\* C11's case: a body holding noindex, noarchive and the obfuscation class,
\* and nothing else, came back flagged as an anti-bot page.
C11_Witness ==
    /\ fhPc = "ret"
    /\ fhRes.text.marks = {"noindex", "noarchive", "gorizontal-vertikal"}
    /\ fhRes.looks_like_antibot

\* C14: the expansion of a sitemap index is one level deep.  The fetches of
\* a crawl number at most 1 (robots.txt) + the root candidates + the locs of
\* the root sitemap indexes; a fetch in the loop over an index's children
\* takes one loc off the children left and adds none; and a child that is a
\* well-formed sitemap index adds no URL, has none of its locs queued for a
\* fetch, and leaves the crawl at the next child.
C14_IndexOneLevelDeep ==
    [][/\ cwFetched' <= 1 + cwNCands' + cwIndexLocs'
       /\ (cwPc = "child" /\ cwFetched' # cwFetched
             => /\ cwFetched' = cwFetched + 1
                /\ cwLocs' = Tail(cwLocs)
                /\ cwCands' = cwCands
                /\ cwIndexLocs' = cwIndexLocs)
       /\ (cwPc = "child" /\ cwFetched' # cwFetched /\ ~cwLast'.raised
             /\ ~IsBadResponse(cwLast') /\ cwLast'.tag = "sitemapindex"
             => /\ cwUrls' = cwUrls
                /\ cwGood' = cwGood
                /\ cwCLocs' = <<>>
                /\ cwPc' = "child")]_vars

\* C14's case: one candidate, a sitemap index of two children; the second
\* child was itself a sitemap index with two locs, and the crawl returned
\* after 1 + 1 + 2 fetches.
C14_Witness ==
    /\ cwPc = "returned"
    /\ cwNCands = 1
    /\ cwIndexLocs = 2
    /\ cwFetched = 4
    /\ cwLast.level = "child"
    /\ ~cwLast.raised
    /\ ~IsBadResponse(cwLast)
    /\ cwLast.tag = "sitemapindex"
    /\ cwLast.nlocs = 2

\* The raw title has no text left once tags, &nbsp; and whitespace are taken
\* out (a missing title and a non-string value that is false have no text).
TitleBlank(v) ==
    \A i \in 1..Len(PyStrOr(v)) : PyStrOr(v)[i] \in {" ", "nl", "<b>", "&nbsp;"}

\* C12: parse_event returns None exactly when the raw id is missing or not
\* numeric, or the title is empty after the stripping of HTML and
\* whitespace; otherwise it returns an EventRecord with an integer id and a
\* non-empty title, whatever description, dates, place, categories and tags
\* are.
C12_DropRule ==
    pePc = "ret" =>
        /\ peOut.dropped <=> (TsNonNumeric(peRaw.id) \/ TitleBlank(peRaw.title))
        /\ (~peOut.dropped =>
              /\ IsInt(peOut.ev.id)
              /\ peOut.ev.title # <<>>
              /\ \E i \in 1..Len(peOut.ev.title) : ~IsWs(peOut.ev.title[i]))

\* C12's case: an event with a numeric id and a title inside tags, with no
\* description, dates that are no list, a place that is no dict and no
\* categories or tags, came back as a record titled "a".
C12_Witness ==
    /\ pePc = "ret"
    /\ peRaw.title = JStr(<<"<b>", "a", "<b>">>)
    /\ peRaw.description = JNone
    /\ ~peRaw.dates.isList
    /\ ~peRaw.place.isDict
    /\ peRaw.categories = ListVal(FALSE, <<>>, JNone)
    /\ ~peOut.dropped
    /\ peOut.ev.title = <<"a">>
    /\ peOut.ev.description = <<>>

\* C13 as stated: the ids of the records kept in one harvest run are
\* pairwise distinct.
C13_IdsDistinct ==
    \A i, j \in 1..Len(bdRawEvents) : i # j => bdRawEvents[i].id # bdRawEvents[j].id

\* C15: with make_pairs the run holds exactly one pair per record kept, in
\* the same order and with the record's id, and every pair has a non-empty
\* source and a non-empty target; without make_pairs it holds no pair.
C15_OnePairPerRecord ==
    /\ (~bdMakePairs => bdPairs = <<>>)
    /\ (bdMakePairs =>
          /\ Len(bdPairs) = Len(bdRawEvents)
          /\ \A i \in 1..Len(bdPairs) :
                /\ bdPairs[i].id = bdRawEvents[i].id
                /\ bdPairs[i].source # <<>>
                /\ bdPairs[i].target # <<>>
                /\ \E k \in 1..Len(bdPairs[i].source) : ~IsWs(bdPairs[i].source[k])
                /\ \E k \in 1..Len(bdPairs[i].target) : ~IsWs(bdPairs[i].target[k]))

\* C15's case: a run with make_pairs was saved with two records and their
\* two pairs, one of them for an event whose title and short title are "."
\* and that has no description: its target is the full stop alone.
C15_Witness ==
    /\ bdPc = "saved"
    /\ bdMakePairs
    /\ Len(bdRawEvents) = 2
    /\ Len(bdPairs) = 2
    /\ \E i \in 1..2 :
          /\ bdRawEvents[i].short_title = <<".">>
          /\ bdRawEvents[i].description = <<>>
          /\ bdPairs[i].target = <<".">>

====
